---- MODULE Spec2Model ----
(***************************************************************************)
(* Model of the wallet-analysis pipeline of src/app.py (lines 689-918):    *)
(* the st.cache_data wrapped fetch functions, get_txs_all, the             *)
(* classification loop of get_wallet_stats and the summary computation.    *)
(*                                                                         *)
(* Units.  Amounts are kept in satoshis (the code divides by 1e8 and works *)
(* in floating point; the comparisons > 0 and max(0, a - b) are the same   *)
(* on the satoshi integers).  Prices are whole USD per BTC, currency       *)
(* multipliers are hundredths (78 stands for 0.78).  A calendar day is the *)
(* integer day number; the "%d-%m-%Y" string of a day and the              *)
(* pd.to_datetime parse of that string are both one-to-one on days, so a   *)
(* date_str is represented by its day number; the truncation of a          *)
(* timestamp to its day (strftime) is DayOf.                               *)
(***************************************************************************)
EXTENDS Integers, Sequences, FiniteSets, TLC

\* ---------------------------------------------------------------- bounds
MaxRequests == 2
MaxFails == 1
MaxSmallLen == 2

\* ------------------------------------------------------ program constants
Last20Limit == 20
PageSize == 25

\* One calendar day in clock ticks (the code's timestamps are seconds and
\* strftime("%d-%m-%Y") drops the time of day).
TicksPerDay == 2

ME == "me"
\* Python's None where dict.get finds no scriptpubkey_address key.
NoAddr == "None"
\* What get_tx_details returns: the {} of a failed fetch (falsy in "if not
\* detail"), or the service's record of the transaction, held by its txid.
EmptyDetail == [empty |-> TRUE, txid |-> 0]
Record(txid) == [empty |-> FALSE, txid |-> txid]

Min(a, b) == IF a < b THEN a ELSE b
Max(a, b) == IF a > b THEN a ELSE b

Put(cache, key, val) == [k \in (DOMAIN cache) \cup {key} |-> IF k = key THEN val ELSE cache[k]]
EmptyCache == [k \in {} |-> 0]

\* ------------------------------------------------------------- the world
\* What the external services hold.  A transaction id stands for the detail
\* record the transaction service returns for it.  An input's prevout is
\* a record ("rec"), a JSON null ("null", as for an input that spends no
\* previous output) or a missing key ("absent"); an output's address and a
\* transaction's block_time are optional.
Prevout(kind, a, v) == [kind |-> kind, scriptpubkey_address |-> a, value |-> v]
In(a, v) == [prevout |-> Prevout("rec", a, v)]
InNoPrevoutKey == [prevout |-> Prevout("absent", NoAddr, 0)]
InNullPrevout == [prevout |-> Prevout("null", NoAddr, 0)]
Out(a, v) == [scriptpubkey_address |-> a, value |-> v]
Tx(vin, vout, bt, conf) ==
  [vin |-> vin, vout |-> vout, status |-> [block_time |-> bt, confirmed |-> conf]]
NoBlockTime == <<>>

Shapes ==
  << Tx(<<In("x", 5)>>, <<Out(ME, 5)>>, <<2>>, TRUE),
     Tx(<<In(ME, 5)>>, <<Out("x", 4)>>, <<5>>, TRUE),
     Tx(<<In(ME, 5)>>, <<Out("x", 3), Out(ME, 1)>>, <<0>>, TRUE),
     Tx(<<In("x", 2), In(ME, 3), In(ME, 1)>>, <<Out(ME, 1), Out("y", 3), Out(ME, 1)>>, <<3>>, TRUE),
     Tx(<<In(ME, 3)>>, <<Out(ME, 3)>>, <<4>>, TRUE),
     Tx(<<In("x", 2)>>, <<Out(NoAddr, 0), Out(ME, 0), Out("y", 2)>>, <<1>>, TRUE),
     Tx(<<InNoPrevoutKey, In(NoAddr, 4)>>, <<Out(ME, 2)>>, NoBlockTime, FALSE),
     Tx(<<InNullPrevout>>, <<Out(ME, 6)>>, <<1>>, TRUE) >>
NumShapes == Len(Shapes)

LongId(i) == 100 + i
DetailOf(txid) ==
  IF txid <= NumShapes THEN Shapes[txid]
  ELSE IF txid % 2 = 0
       THEN Tx(<<In("x", 3)>>, <<Out(ME, 3)>>, <<txid % (3 * TicksPerDay)>>, TRUE)
       ELSE Tx(<<In(ME, 2)>>, <<Out("y", 2)>>, <<txid % (3 * TicksPerDay)>>, TRUE)

RECURSIVE SeqsUpTo(_, _)
SeqsUpTo(S, n) ==
  IF n = 0 THEN {<<>>}
  ELSE LET shorter == SeqsUpTo(S, n - 1)
       IN shorter \cup {Append(s, x) : s \in {t \in shorter : Len(t) = n - 1}, x \in S}
NoRep(s) == \A i, j \in 1..Len(s) : i # j => s[i] # s[j]
\* The service lists an address's transactions newest first, the unconfirmed
\* ones (no block_time yet) before the confirmed.
Age(txid) ==
  LET bt == DetailOf(txid).status.block_time IN IF bt = <<>> THEN 0 ELSE 1 + (3 * TicksPerDay - bt[1])
NewestFirst(s) == \A i, j \in 1..Len(s) : i < j => Age(s[i]) <= Age(s[j])
SmallHistories == {s \in SeqsUpTo(1..NumShapes, MaxSmallLen) : NoRep(s) /\ NewestFirst(s)}
LongLengths == {PageSize, PageSize + 1}
LongHistories == {[i \in 1..n |-> LongId(i)] : n \in LongLengths}
Histories == SmallHistories \cup LongHistories

ServicePrice(day) == 2 + day
ServiceCurrentPrice == 2 + 2
ServiceRates == [GBP |-> 80, EUR |-> 90]
Currencies == {"USD", "GBP", "EUR"}
ChainStats == {[funded_txo_sum |-> 0, spent_txo_sum |-> 0],
               [funded_txo_sum |-> 7, spent_txo_sum |-> 2],
               [funded_txo_sum |-> 2, spent_txo_sum |-> 5]}
NowTs == 3 * TicksPerDay + 1
\* The 30-day price series the market-chart service holds: none, a single
\* point, constant prices, moving prices.
Markets == {<<>>, <<4>>, <<4, 4, 4>>, <<2, 4, 3>>}
UsualMarket == <<2, 4, 3>>

DayOf(ts) == ts \div TicksPerDay

\* ------------------------------------------------- st.cache_data wrappers
\* A call of an @st.cache_data function whose body is "try: fetch ... return
\* value / except: return sentinel".  The decorator stores whatever the body
\* returns under the call's arguments, the sentinel of a failed fetch
\* included, and answers later calls with the same arguments from the store.
\* The result is the set of possible outcomes: the value returned, the store
\* afterwards, the number of failed fetches so far, and how it was answered.
Outcome(ret, store, f, how) == [ret |-> ret, store |-> store, f |-> f, how |-> how]
Fetched(store, f, key, value, sentinel) ==
  {Outcome(value, Put(store, key, value), f, "fetched")}
    \cup (IF f < MaxFails THEN {Outcome(sentinel, Put(store, key, sentinel), f + 1, "failed")} ELSE {})
CachedCall(store, f, key, value, sentinel) ==
  IF key \in DOMAIN store
  THEN {Outcome(store[key], store, f, "cache")}
  ELSE Fetched(store, f, key, value, sentinel)

\* get_tx_details(txid), lines 768-777.
get_tx_details(store, f, txid) == CachedCall(store, f, txid, Record(txid), EmptyDetail)

\* get_current_btc_price(), lines 691-700.
get_current_btc_price(store, f) == CachedCall(store, f, "btc", ServiceCurrentPrice, 0)

\* get_wallet_balance(address), lines 719-733: max(balance, 0) of funded - spent.
Balance(st) == Max(st.funded_txo_sum - st.spent_txo_sum, 0)
get_wallet_balance(store, f, address) ==
  IF address \in DOMAIN store
  THEN {Outcome(store[address], store, f, "cache")}
  ELSE UNION {Fetched(store, f, address, Balance(st), 0) : st \in ChainStats}
\* balance = (funded - spent) / 1e8, line 728, as the service's record gives it.
ChainBalance(st) == st.funded_txo_sum - st.spent_txo_sum
\* The records the service may answer a call with: none is asked for when the
\* store holds the address.
Answers(store, address) ==
  IF address \in DOMAIN store THEN {CHOOSE st \in ChainStats : TRUE} ELSE ChainStats
\* The call when the service's record is st.
get_wallet_balance_of(store, f, address, st) == CachedCall(store, f, address, Balance(st), 0)

\* get_currency_rates(), lines 793-806: USD is added when the service leaves
\* it out; the fixed table is returned when the fetch fails.
FallbackRates == [USD |-> 100, GBP |-> 78, EUR |-> 92]
\* Lines 801-802 left out: the service's rates as they come.
WithUSD_AsIs(rates) == rates
WithUSD(rates) == IF "USD" \in DOMAIN rates THEN rates ELSE Put(rates, "USD", 100)
get_currency_rates(store, f) == CachedCall(store, f, "rates", WithUSD(ServiceRates), FallbackRates)

\* get_btc_historical_prices(), lines 779-791: the frame of the service's
\* prices, an empty frame when the fetch fails.
get_btc_historical_prices(store, f, prices) == CachedCall(store, f, "30", prices, <<>>)

\* multiplier = currency_rates.get(currency.upper(), 1.0), line 869.
Multiplier(rates, currency) == IF currency \in DOMAIN rates THEN rates[currency] ELSE 100

\* get_historical_price(date_str), lines 702-717.  Inside the cached wrapper
\* the body first consults the dict price_cache; only a successful fetch is
\* written to price_cache, the wrapper stores either result.
HistOutcome(ret, store, dict, f, how) == [ret |-> ret, store |-> store, dict |-> dict, f |-> f, how |-> how]
get_historical_price(store, dict, f, day) ==
  IF day \in DOMAIN store
  THEN {HistOutcome(store[day], store, dict, f, "cache")}
  ELSE IF day \in DOMAIN dict
  THEN {HistOutcome(dict[day], Put(store, day, dict[day]), dict, f, "dict")}
  ELSE {HistOutcome(ServicePrice(day), Put(store, day, ServicePrice(day)),
                    Put(dict, day, ServicePrice(day)), f, "fetched")}
         \cup (IF f < MaxFails
               THEN {HistOutcome(0, Put(store, day, 0), dict, f + 1, "failed")}
               ELSE {})

\* ------------------------------------------------- transaction classifier
\* btc_in, line 828: the outputs whose scriptpubkey_address is the address.
RECURSIVE SumOutputsTo(_, _)
SumOutputsTo(vout, address) ==
  IF vout = <<>> THEN 0
  ELSE (IF Head(vout).scriptpubkey_address = address THEN Head(vout).value ELSE 0)
       + SumOutputsTo(Tail(vout), address)
\* btc_in without the owner test of line 828.
RECURSIVE SumOutputs(_)
SumOutputs(vout) == IF vout = <<>> THEN 0 ELSE Head(vout).value + SumOutputs(Tail(vout))
btc_in_AnyOwner(detail, address) == SumOutputs(detail.vout)
btc_in(detail, address) == SumOutputsTo(detail.vout, address)

\* vin.get("prevout", {}) gives {} only when the key is missing; a null
\* prevout is returned as None and prevout.get raises AttributeError (832).
Faults(detail) == \E i \in 1..Len(detail.vin) : detail.vin[i].prevout.kind = "null"

\* btc_out, lines 829-835: per input owned by the address, max(0, input
\* value - change_value), change_value being the same sum as btc_in.
RECURSIVE SumInputsFrom(_, _, _)
SumInputsFrom(vin, address, change_value) ==
  IF vin = <<>> THEN 0
  ELSE (IF Head(vin).prevout.scriptpubkey_address = address
        THEN Max(0, Head(vin).prevout.value - change_value) ELSE 0)
       + SumInputsFrom(Tail(vin), address, change_value)
\* btc_out without the change subtracted at line 835.
btc_out_NoChange(detail, address) == SumInputsFrom(detail.vin, address, 0)
btc_out(detail, address) == SumInputsFrom(detail.vin, address, SumOutputsTo(detail.vout, address))

\* counterparty, lines 836-841.  A missing address reads "" in the first list
\* and None in the second; "N/A" when both lists are empty.
NotOwned(x, address) == x.scriptpubkey_address # address
InputOwners(detail, address) ==
  LET idxs == {i \in 1..Len(detail.vin) : NotOwned(detail.vin[i].prevout, address)}
      a(i) == detail.vin[i].prevout.scriptpubkey_address
  IN [k \in 1..Cardinality(idxs) |->
        LET i == CHOOSE j \in idxs : Cardinality({h \in idxs : h < j}) = k - 1
        IN IF a(i) = NoAddr THEN "" ELSE a(i)]
OutputOwners(detail, address) ==
  LET idxs == {i \in 1..Len(detail.vout) : NotOwned(detail.vout[i], address)}
  IN [k \in 1..Cardinality(idxs) |->
        detail.vout[CHOOSE j \in idxs : Cardinality({h \in idxs : h < j}) = k - 1].scriptpubkey_address]
Counterparty(detail, address) ==
  LET counterparties == IF InputOwners(detail, address) # <<>>
                        THEN InputOwners(detail, address)
                        ELSE OutputOwners(detail, address)
  IN IF counterparties # <<>> THEN counterparties[1] ELSE "N/A"

\* Lines 843-852: the rows appended for one transaction.
Row(day, type, btc, price, txid, confirmed, cp) ==
  [Date |-> day, Type |-> type, BTC |-> btc, Price |-> price, USD |-> btc * price,
   Txid |-> txid, Confirmed |-> confirmed, Counterparty |-> cp]
\* Line 843 with >= for >.
EmitIn_NonNegative(amount) == amount >= 0
EmitIn(amount) == amount > 0
EmitOut(amount) == amount > 0
\* Line 843-847 taken once for every owned output instead of once for their sum.
Rows_PerOutput(detail, address, txid, day, price) ==
  LET own == SelectSeq(detail.vout, LAMBDA v : v.scriptpubkey_address = address /\ v.value > 0)
      o == btc_out(detail, address)
      cp == Counterparty(detail, address)
      c == detail.status.confirmed
  IN [k \in 1..Len(own) |-> Row(day, "IN", own[k].value, price, txid, c, cp)]
     \o (IF EmitOut(o) THEN <<Row(day, "OUT", o, price, txid, c, cp)>> ELSE <<>>)
Rows(detail, address, txid, day, price) ==
  LET i == btc_in(detail, address)
      o == btc_out(detail, address)
      cp == Counterparty(detail, address)
      c == detail.status.confirmed
  IN (IF EmitIn(i) THEN <<Row(day, "IN", i, price, txid, c, cp)>> ELSE <<>>)
     \o (IF EmitOut(o) THEN <<Row(day, "OUT", o, price, txid, c, cp)>> ELSE <<>>)

\* ts = detail.get("status", {}).get("block_time", int(time.time())), line 820.
BlockTime(detail, clock) ==
  IF detail.status.block_time = <<>> THEN clock ELSE detail.status.block_time[1]

\* --------------------------------------------------------- value series
\* sorted(..., reverse=True) for sorted(...) at line 907.
RECURSIVE SortedDaysDescending(_)
SortedDaysDescending(S) ==
  IF S = {} THEN <<>>
  ELSE LET m == CHOOSE x \in S : \A y \in S : x >= y
       IN <<m>> \o SortedDaysDescending(S \ {m})
RECURSIVE SortedDays(_)
SortedDays(S) ==
  IF S = {} THEN <<>>
  ELSE LET m == CHOOSE x \in S : \A y \in S : x <= y
       IN <<m>> \o SortedDays(S \ {m})
DatesOf(df) == {df[i].Date : i \in 1..Len(df)}

\* df[df["Type"] == type] and df[df["Date"] == date]: the rows a mask keeps.
Mask(df, type) == SelectSeq(df, LAMBDA row : row.Type = type)
date_df(df, date) == SelectSeq(df, LAMBDA row : row.Date = date)
\* Sum of column col ("BTC" or "USD") over rows.
RECURSIVE ColSumTo(_, _, _)
ColSumTo(rows, col, n) ==
  IF n = 0 THEN 0
  ELSE (IF col = "BTC" THEN rows[n].BTC ELSE rows[n].USD) + ColSumTo(rows, col, n - 1)
ColSum(rows, col) == ColSumTo(rows, col, Len(rows))

\* Line 909: sum(df[df["Type"] == "IN"]["BTC"]) - sum(df[df["Type"] == "OUT"]["BTC"]),
\* taken over df, not over date_df.
net_btc_date(df, date) ==
  ColSum(Mask(df, "IN"), "BTC") - ColSum(Mask(df, "OUT"), "BTC")
\* Line 910 with the increment kept from going below 0.
CostBasisStep_Clamped(df, date) ==
  Max(0, ColSum(Mask(date_df(df, date), "IN"), "USD") - ColSum(Mask(date_df(df, date), "OUT"), "USD"))
\* Line 910: the increment of cost_basis for one date, over date_df.
CostBasisStep(df, date) ==
  ColSum(Mask(date_df(df, date), "IN"), "USD") - ColSum(Mask(date_df(df, date), "OUT"), "USD")

\* Lines 905-914: the value_data loop over sorted(df["Date"].unique()), from
\* its k-th date on, cost_basis being the sum so far.  Every date of df was
\* passed to get_historical_price in the loop of the same run, so the call of
\* line 912 is answered from the store of the wrapper.
RECURSIVE ValueLoop(_, _, _, _, _, _)
ValueLoop(df, store, multiplier, days, k, cost_basis) ==
  IF k > Len(days) THEN <<>>
  ELSE LET date == days[k]
           held == net_btc_date(df, date)
           basis == cost_basis + CostBasisStep(df, date)
           price == store[date]
       IN <<[Date |-> date,
             net_btc_date |-> held,
             price |-> price,
             MarketValue |-> held * price * multiplier,
             CostBasis |-> basis * multiplier]>>
          \o ValueLoop(df, store, multiplier, days, k + 1, basis)
ValueData(df, store, multiplier) ==
  ValueLoop(df, store, multiplier, SortedDays(DatesOf(df)), 1, 0)
MarketValues(series) == [i \in 1..Len(series) |-> series[i].MarketValue]

\* max_drawdown, lines 916-918.  The quotient of two floats is a number, NaN
\* (0/0) or -inf (negative/0); Series.min() skips NaN and is NaN when nothing
\* is left.  A number is kept as the fraction n/d with d > 0.
Num(n, d) == [kind |-> "num", n |-> n, d |-> d]
NaN == [kind |-> "nan", n |-> 0, d |-> 1]
NegInf == [kind |-> "-inf", n |-> 0, d |-> 1]
PosInf == [kind |-> "inf", n |-> 0, d |-> 1]
Quot(a, b) ==
  IF b = 0 THEN (IF a = 0 THEN NaN ELSE IF a < 0 THEN NegInf ELSE PosInf)
  ELSE IF b > 0 THEN Num(a, b) ELSE Num(-a, -b)
Less(x, y) ==
  CASE x.kind = "-inf" -> y.kind # "-inf"
    [] x.kind = "inf" -> FALSE
    [] OTHER -> (y.kind = "inf") \/ (y.kind = "num" /\ x.n * y.d < y.n * x.d)
\* cummax() of the values from the i-th on, m being the maximum before it.
RECURSIVE CumMaxFrom(_, _, _)
CumMaxFrom(values, i, m) ==
  IF i > Len(values) THEN <<>>
  ELSE LET top == IF i = 1 THEN values[1] ELSE Max(m, values[i])
       IN <<top>> \o CumMaxFrom(values, i + 1, top)
CumMax(values) == CumMaxFrom(values, 1, 0)
RECURSIVE MinSkipNaN(_)
MinSkipNaN(qs) ==
  IF qs = <<>> THEN NaN
  ELSE LET rest == MinSkipNaN(Tail(qs))
       IN IF Head(qs).kind = "nan" THEN rest
          ELSE IF rest.kind = "nan" THEN Head(qs)
          ELSE IF Less(rest, Head(qs)) THEN rest ELSE Head(qs)
Times100(q) == IF q.kind = "num" THEN Num(q.n * 100, q.d) ELSE q
\* Lines 916-918 without "if not value_df.empty".
DrawdownGuard_None(values) == TRUE
DrawdownGuard(values) == values # <<>>
max_drawdown(values) ==
  IF DrawdownGuard(values)
  THEN LET cummax == CumMax(values)
       IN Times100(MinSkipNaN([i \in 1..Len(values) |->
                                 Quot(values[i] - cummax[i], cummax[i])]))
  ELSE Num(0, 1)

\* Line 886 without its first branch.
Invested_MarketValue(total_btc_in, net_usd, multiplier, wallet_value) == wallet_value
\* invested, line 886.
Invested(total_btc_in, net_usd, multiplier, wallet_value) ==
  IF total_btc_in > 0 THEN net_usd * multiplier ELSE wallet_value

\* A float division in Python: ZeroDivisionError when the divisor is 0.
ZeroDivisionError == [kind |-> "ZeroDivisionError", n |-> 0, d |-> 1]
PyDiv(a, b) == IF b = 0 THEN ZeroDivisionError ELSE Quot(a, b)
Raised(x) == x.kind = "ZeroDivisionError"

\* gain_pct = (gain / invested) * 100 if invested != 0 else 0, line 888.
GainPctGuard_Always(invested) == TRUE
GainPctGuard(invested) == invested # 0
gain_pct(gain, invested) ==
  IF GainPctGuard(invested) THEN Times100(PyDiv(gain, invested)) ELSE Num(0, 1)
\* avg_buy = invested / net_btc if net_btc != 0 else 0, line 889.
avg_buy(invested, net_btc) ==
  IF net_btc # 0 THEN PyDiv(invested, net_btc) ELSE Num(0, 1)

\* Fractions n/d, d > 0.
FAdd(x, y) == Num(x.n * y.d + y.n * x.d, x.d * y.d)
FSub(x, y) == Num(x.n * y.d - y.n * x.d, x.d * y.d)
FMul(x, y) == Num(x.n * y.n, x.d * y.d)
RECURSIVE FSum(_)
FSum(xs) == IF xs = <<>> THEN Num(0, 1) ELSE FAdd(Head(xs), FSum(Tail(xs)))

\* historical_prices["price"].pct_change(): NaN for the first row.
pct_change(prices) ==
  [i \in 1..Len(prices) |->
     IF i = 1 THEN NaN ELSE Quot(prices[i] - prices[i - 1], prices[i - 1])]
\* Series.std() squared: the sample variance (ddof = 1) of the values that are
\* not NaN; NaN when fewer than two are left or one of them is infinite.
Variance(xs) ==
  LET vals == SelectSeq(xs, LAMBDA x : x.kind # "nan")
      count == Len(vals)
  IN IF count < 2 \/ (\E i \in 1..count : vals[i].kind # "num") THEN NaN
     ELSE LET total == FSum(vals)
              mean == Num(total.n, total.d * count)
              squares == FSum([i \in 1..count |-> FMul(FSub(vals[i], mean), FSub(vals[i], mean))])
          IN Num(squares.n, squares.d * (count - 1))
\* volatility, line 901: std * sqrt(252) * 100, or 0 for an empty frame.  The
\* figure is kept as the variance v it is the root of: sqrt(v * 252) * 100.
volatility(prices) ==
  IF prices # <<>> THEN Variance(pct_change(prices)) ELSE Num(0, 1)
\* "volatility != 0" (NaN != 0 is True).
NonZero(v) == ~(v.kind = "num" /\ v.n = 0)
\* sharpe_ratio, line 903: (gain_pct / volatility) * sqrt(252), the quotient
\* of gain_pct by 100 * sqrt(v); NaN when the volatility is NaN.
Sharpe(kind, pct, v) == [kind |-> kind, gain_pct |-> pct, variance |-> v]
sharpe_ratio(pct, v) ==
  IF NonZero(v)
  THEN (IF v.kind = "num" THEN Sharpe("num", pct, v) ELSE Sharpe("nan", pct, v))
  ELSE Sharpe("zero", Num(0, 1), Num(0, 1))

\* holding_period_days, line 899: whole days from first_tx_date to now, 0
\* when first_tx_date is None.
holding_period_days(first, clock) ==
  IF first # <<>> THEN (clock - first[1]) \div TicksPerDay ELSE 0

\* get_txs_all: the page the service returns for a url, lines 738 and 758.
\* url 0 is the address's first page, otherwise the page after that txid.
Position(seq, x) == CHOOSE i \in 1..Len(seq) : seq[i] = x
Page(hist, cursor) ==
  LET start == IF cursor = 0 THEN 1 ELSE Position(hist, cursor) + 1
  IN SubSeq(hist, start, Min(Len(hist), start + PageSize - 1))
FirstN(seq, n) == SubSeq(seq, 1, Min(n, Len(seq)))

\* ------------------------------------------------------------------ state
\* ------------------------------------------------------------ subscription
\* The users row of an account (lines 143-155, 165-184) and the mandates the
\* payment provider holds for a customer.
None == "None"
Row_users(customer_id, status, mandate_id) ==
  [gocardless_customer_id |-> customer_id, subscription_status |-> status, mandate_id |-> mandate_id]
Mandate(id, status) == [id |-> id, status |-> status]
MandateLists ==
  { <<>>,
    <<Mandate("MD1", "active")>>,
    <<Mandate("MD1", "cancelled")>>,
    <<Mandate("MD1", "cancelled"), Mandate("MD2", "pending_submission")>> }
\* What the provider holds at the time of a script run: nothing for an
\* account that has no customer id.
ProviderReports(customer_id) == IF customer_id = None THEN {<<>>} ELSE MandateLists
\* The request of lines 292-293 can fail; it is made only at line 292.
Asked(row) == row.subscription_status # "active" /\ row.gocardless_customer_id # None
Replies(row) == IF Asked(row) THEN BOOLEAN ELSE {TRUE}

\* check_subscription_status(customer_id, subscription_status), lines 281-302:
\* the pair (status, mandate id).
Backing(mandates) ==
  {i \in 1..Len(mandates) : mandates[i].status \in {"active", "pending_submission"}}
check_subscription_status(customer_id, subscription_status, mandates, ok) ==
  IF subscription_status = "active" THEN <<"active", None>>
  ELSE IF customer_id = None THEN <<"inactive", None>>
  ELSE IF ok /\ Backing(mandates) # {}
       THEN <<"active", mandates[CHOOSE i \in Backing(mandates) : \A j \in Backing(mandates) : i <= j].id>>
       ELSE <<"inactive", None>>
\* Lines 591-598: the row is rewritten when the status or the mandate id
\* differs, with the customer id it had.
update_if_changed(row, result) ==
  IF row.subscription_status # result[1] \/ row.mandate_id # result[2]
  THEN Row_users(row.gocardless_customer_id, result[1], result[2])
  ELSE row
\* re.match(email_pattern, user_email), lines 608-609.
ValidEmails == {"user@example.com"}
Emails == ValidEmails \cup {"user"}
\* Sign-up saves the row without subscription fields (lines 546-552); rows
\* migrated from the JSON file may carry a customer id (lines 96-124).
SignedUp == Row_users(None, None, None)
Users ==
  { SignedUp,
    Row_users("CU1", None, None),
    Row_users("CU1", "inactive", None),
    Row_users("CU1", "active", "MD1") }

VARIABLES
  history,            \* the address's transactions at the service, newest first
  market,             \* the 30-day price series at the market-chart service
  txsCache, detailCache, histCache, balCache, curCache, ratesCache, pricesCache,  \* st.cache_data stores
  tx_limit,           \* st.session_state.tx_limit
  pc,                 \* position of the script run
  price_cache,        \* the dict of line 689
  url, all_txs,       \* get_txs_all locals
  txs, idx, data, totals, first_tx_date,   \* get_wallet_stats locals
  summary,            \* lines 868-903, 916-918
  value_data,         \* lines 905-914
  requests, fails,    \* script runs started, fetches failed
  failedDetail, failedPrice, \* keys whose stored value was written by a failed fetch
  staleHit,           \* the last step answered a call from such a stored value
  detailed,           \* txids of this run whose detail record was retrieved
  email,              \* st.session_state.user_email
  user,               \* the users row of that email
  mandates,           \* the provider's mandates for the row's customer at the last script run
  subscription_status \* the local of line 586 in the last script run

caches == <<txsCache, detailCache, histCache, balCache, curCache, ratesCache, pricesCache>>
txsLocals == <<url, all_txs, txs>>
statsLocals == <<idx, data, totals, first_tx_date, detailed>>
account == <<email, user, mandates, subscription_status>>
vars == <<history, market, caches, tx_limit, pc, price_cache, txsLocals,
          statsLocals, summary, value_data, requests, fails, failedDetail, failedPrice, staleHit,
          account>>

ZeroTotals == [total_btc_in |-> 0, total_btc_out |-> 0, total_usd_in |-> 0, total_usd_out |-> 0]
NoSummary == [computed |-> FALSE]
Idle == {"idle", "done", "fault"}

InitUsers(histories, markets, emails, users) ==
  /\ email \in emails
  /\ user \in users
  /\ mandates = <<>>
  /\ subscription_status = None
  /\ history \in histories
  /\ market \in markets
  /\ pricesCache = EmptyCache
  /\ txsCache = EmptyCache /\ detailCache = EmptyCache /\ histCache = EmptyCache
  /\ balCache = EmptyCache /\ curCache = EmptyCache /\ ratesCache = EmptyCache
  /\ tx_limit = "Last 20"
  /\ pc = "idle"
  /\ price_cache = EmptyCache
  /\ url = 0 /\ all_txs = <<>> /\ txs = <<>>
  /\ idx = 1 /\ data = <<>> /\ totals = ZeroTotals /\ first_tx_date = <<>> /\ detailed = <<>>
  /\ summary = NoSummary
  /\ value_data = <<>>
  /\ requests = 0 /\ fails = 0 /\ failedDetail = {} /\ failedPrice = {} /\ staleHit = FALSE
\* An account as sign-up leaves it, with an email the pattern accepts.
InitWith(histories, markets) == InitUsers(histories, markets, ValidEmails, {SignedUp})

\* ---------------------------------------------------------------- actions
\* The st.cache_data stores as a script run finds them, by the time since the
\* run before: after 15 minutes the stored rates (ttl=900) have expired,
\* after an hour the entries of every ttl=3600 store as well.
Expired(store, ttl, elapsed) ==
  IF (ttl = "900" /\ elapsed # "now") \/ (ttl = "3600" /\ elapsed = "1h")
  THEN EmptyCache ELSE store
ExpiredKeys(failed, elapsed) == IF elapsed = "1h" THEN {} ELSE failed

\* Lines 584-598 of a script run: the provider's mandates m and whether the
\* request succeeds give the status of this run; the row is brought in line.
subscription_gate(m, ok, status) ==
  LET result == check_subscription_status(user.gocardless_customer_id,
                                          user.subscription_status, m, ok)
  IN /\ result[1] = status
     /\ mandates' = m
     /\ subscription_status' = status
     /\ user' = update_if_changed(user, result)

\* A script run that finds the subscription inactive and in which the
\* Subscribe button is not pressed: the blurred page, lines 600 and 633-.
Locked ==
  /\ pc \in Idle
  /\ \E m \in ProviderReports(user.gocardless_customer_id), ok \in Replies(user) :
       subscription_gate(m, ok, "inactive")
  /\ UNCHANGED <<email, history, market, caches, tx_limit, pc, price_cache, txsLocals,
                 statsLocals, summary, value_data, requests, fails, failedDetail,
                 failedPrice, staleHit>>

\* The script run of a press of "Subscribe to Premium", lines 600-632: the
\* button was drawn by the run before and is drawn again by this one; with
\* an email the pattern accepts the row is set to active, without customer
\* or mandate.  The page of this run stays the blurred one.
Subscribe ==
  /\ pc \in Idle
  /\ subscription_status = "inactive"
  /\ \E m \in ProviderReports(user.gocardless_customer_id), ok \in Replies(user) :
       LET result == check_subscription_status(user.gocardless_customer_id,
                                               user.subscription_status, m, ok)
       IN /\ result[1] # "active"
          /\ mandates' = m
          /\ subscription_status' = result[1]
          /\ user' = IF email \in ValidEmails
                     THEN Row_users(None, "active", None)
                     ELSE update_if_changed(user, result)
  /\ UNCHANGED <<email, history, market, caches, tx_limit, pc, price_cache, txsLocals,
                 statsLocals, summary, value_data, requests, fails, failedDetail,
                 failedPrice, staleHit>>

\* One script run of the dashboard starts (a widget interaction): the
\* subscription is found active (line 600), the sidebar sets tx_limit
\* (line 581) and price_cache is bound to a new dict (689).
Rerun(mode, elapsed) ==
  /\ pc \in Idle
  /\ requests < MaxRequests
  /\ \E m \in ProviderReports(user.gocardless_customer_id), ok \in Replies(user) :
       subscription_gate(m, ok, "active")
  /\ UNCHANGED email
  /\ requests' = requests + 1
  /\ tx_limit' = mode
  /\ price_cache' = EmptyCache
  /\ ratesCache' = Expired(ratesCache, "900", elapsed)
  /\ txsCache' = Expired(txsCache, "3600", elapsed)
  /\ detailCache' = Expired(detailCache, "3600", elapsed)
  /\ histCache' = Expired(histCache, "3600", elapsed)
  /\ balCache' = Expired(balCache, "3600", elapsed)
  /\ curCache' = Expired(curCache, "3600", elapsed)
  /\ pricesCache' = Expired(pricesCache, "86400", elapsed)
  /\ failedDetail' = ExpiredKeys(failedDetail, elapsed)
  /\ failedPrice' = ExpiredKeys(failedPrice, elapsed)
  /\ url' = 0 /\ all_txs' = <<>> /\ txs' = <<>>
  /\ idx' = 1 /\ data' = <<>> /\ totals' = ZeroTotals /\ first_tx_date' = <<>> /\ detailed' = <<>>
  /\ summary' = NoSummary
  /\ value_data' = <<>>
  /\ staleHit' = FALSE
  /\ pc' = "get_txs"
  /\ UNCHANGED <<history, market, fails>>

\* get_txs_all returns: the wrapper stores the list under the address (the
\* only argument), and get_wallet_stats starts its loop over it (809-814).
Return(list) ==
  /\ txsCache' = Put(txsCache, ME, list)
  /\ txs' = list
  /\ pc' = "loop"

\* Lines 764-766, "except Exception: return []", whatever was fetched before;
\* and the same handler returning the pages it has.
OnError_Partial(fetched) == fetched
OnError(fetched) == <<>>

\* get_txs_all(address) answered from the st.cache_data store.
get_txs_all_cached ==
  /\ pc = "get_txs"
  /\ ME \in DOMAIN txsCache
  /\ txs' = txsCache[ME]
  /\ pc' = "loop"
  /\ UNCHANGED <<account, history, market, caches, tx_limit, price_cache, url, all_txs,
                 statsLocals, summary, value_data, requests, fails, failedDetail,
                 failedPrice, staleHit>>

\* Lines 741-746: the first page, cut to 20; [] when the fetch fails (764-766).
get_txs_all_last20 ==
  /\ pc = "get_txs"
  /\ ME \notin DOMAIN txsCache
  /\ tx_limit = "Last 20"
  /\ \/ /\ all_txs' = FirstN(Page(history, 0), Last20Limit)
        /\ Return(all_txs')
        /\ fails' = fails
     \/ /\ fails < MaxFails
        /\ fails' = fails + 1
        /\ all_txs' = all_txs
        /\ Return(OnError(all_txs))
  /\ UNCHANGED <<account, history, market, detailCache, histCache, balCache, curCache, ratesCache,
                 pricesCache, tx_limit, price_cache, url, statsLocals, summary, value_data,
                 requests, failedDetail, failedPrice, staleHit>>

\* Line 755, "if len(txs) < 25: break", and the same test with <= for <.
ShortPage_Inclusive(page) == Len(page) <= PageSize
ShortPage(page) == Len(page) < PageSize

\* Lines 748-759: one iteration of the pagination loop.
get_txs_all_page ==
  /\ pc = "get_txs"
  /\ ME \notin DOMAIN txsCache
  /\ tx_limit = "All"
  /\ \/ /\ fails' = fails
        /\ LET page == Page(history, url)
           IN IF page = <<>>
              THEN /\ all_txs' = all_txs
                   /\ url' = url
                   /\ Return(all_txs')
              ELSE /\ all_txs' = all_txs \o page
                   /\ IF ShortPage(page)
                      THEN /\ url' = url
                           /\ Return(all_txs')
                      ELSE /\ url' = page[Len(page)]
                           /\ UNCHANGED <<txsCache, txs, pc>>
     \/ /\ fails < MaxFails
        /\ fails' = fails + 1
        /\ UNCHANGED <<url, all_txs>>
        /\ Return(OnError(all_txs))
  /\ UNCHANGED <<account, history, market, detailCache, histCache, balCache, curCache, ratesCache,
                 pricesCache, tx_limit, price_cache, statsLocals, summary, value_data,
                 requests, failedDetail, failedPrice, staleHit>>

Mark(failed, key, how) ==
  IF how = "failed" THEN failed \cup {key}
  ELSE IF how = "fetched" THEN failed \ {key} ELSE failed
Stale(failed, key, how) == how = "cache" /\ key \in failed

\* "if not detail: ... continue", lines 817-819: the loop goes on with the
\* next transaction; and the same with break for continue.
NoDetail(d) == d.empty
Continue_Break(i, list) == Len(list) + 1
Continue(i, list) == i + 1

\* Lines 814-854: one iteration of the loop of get_wallet_stats.
get_wallet_stats_step ==
  /\ pc = "loop"
  /\ idx <= Len(txs)
  /\ LET txid == txs[idx] IN
     \E d \in get_tx_details(detailCache, fails, txid) :
       /\ detailCache' = d.store
       /\ failedDetail' = Mark(failedDetail, txid, d.how)
       /\ IF NoDetail(d.ret)
          THEN /\ idx' = Continue(idx, txs)
               /\ fails' = d.f
               /\ staleHit' = Stale(failedDetail, txid, d.how)
               /\ UNCHANGED <<histCache, price_cache, failedPrice, data, totals,
                              first_tx_date, detailed, pc>>
          ELSE LET detail == DetailOf(d.ret.txid)
                   ts == BlockTime(detail, NowTs)
                   day == DayOf(ts)
               IN \E h \in get_historical_price(histCache, price_cache, d.f, day) :
                    /\ histCache' = h.store
                    /\ price_cache' = h.dict
                    /\ fails' = h.f
                    /\ failedPrice' = Mark(failedPrice, day, h.how)
                    /\ staleHit' = (Stale(failedDetail, txid, d.how) \/ Stale(failedPrice, day, h.how))
                    /\ first_tx_date' = IF first_tx_date = <<>> \/ ts < first_tx_date[1]
                                        THEN <<ts>> ELSE first_tx_date
                    /\ IF Faults(detail)
                       THEN /\ pc' = "fault"
                            /\ UNCHANGED <<idx, data, totals, detailed>>
                       ELSE LET rows == SubSeq(data', Len(data) + 1, Len(data'))
                            IN /\ data' = data \o Rows(detail, ME, txid, day, h.ret)
                               /\ totals' =
                                    [total_btc_in |-> totals.total_btc_in + ColSum(Mask(rows, "IN"), "BTC"),
                                     total_btc_out |-> totals.total_btc_out + ColSum(Mask(rows, "OUT"), "BTC"),
                                     total_usd_in |-> totals.total_usd_in + ColSum(Mask(rows, "IN"), "USD"),
                                     total_usd_out |-> totals.total_usd_out + ColSum(Mask(rows, "OUT"), "USD")]
                               /\ detailed' = Append(detailed, txid)
                               /\ idx' = idx + 1
                               /\ pc' = pc
  /\ UNCHANGED <<account, history, market, txsCache, balCache, curCache, ratesCache, pricesCache,
                 tx_limit, txsLocals, summary, value_data, requests>>

\* Lines 856-918 with 868-869: the loop is over; the rates, the live price,
\* the balance and the 30-day prices are fetched, the summary figures, the
\* value series and max_drawdown computed.  (The rates are fetched at 868,
\* before the loop; the call shares no state with the loop, so it is taken
\* here.)  summary.balance is the local balance of get_wallet_balance when the
\* call of this run fetched it.
summary_metrics ==
  /\ pc = "loop"
  /\ idx > Len(txs)
  /\ \E currency \in Currencies :
     \E r \in get_currency_rates(ratesCache, fails) :
     \E c \in get_current_btc_price(curCache, r.f) :
     \E st \in Answers(balCache, ME) :
     \E b \in get_wallet_balance_of(balCache, c.f, ME, st) :
     \E hp \in get_btc_historical_prices(pricesCache, b.f, market) :
       LET multiplier == Multiplier(r.ret, currency)
           current_price_usd == c.ret
           net_btc == b.ret
           net_usd == totals.total_usd_in - totals.total_usd_out
           wallet_value == net_btc * current_price_usd * multiplier
           invested == Invested(totals.total_btc_in, net_usd, multiplier, wallet_value)
           gain == wallet_value - invested
           bad == net_btc < 0
           pct == IF bad THEN Num(0, 1) ELSE gain_pct(gain, invested)
           vol == volatility(hp.ret)
       IN /\ ratesCache' = r.store
          /\ curCache' = c.store
          /\ balCache' = b.store
          /\ pricesCache' = hp.store
          /\ fails' = hp.f
          /\ value_data' = ValueData(data, histCache, multiplier)
          /\ summary' = [computed |-> TRUE,
                         rates |-> r.ret,
                         rates_failed |-> (r.how = "failed"),
                         multiplier |-> multiplier,
                         current_price_usd |-> current_price_usd,
                         balance |-> IF b.how = "fetched" THEN <<ChainBalance(st)>> ELSE <<>>,
                         net_btc |-> IF bad THEN 0 ELSE net_btc,
                         net_usd |-> net_usd,
                         wallet_value |-> IF bad THEN 0 ELSE wallet_value,
                         invested |-> invested,
                         gain |-> IF bad THEN 0 ELSE gain,
                         gain_pct |-> pct,
                         avg_buy |-> avg_buy(invested, net_btc),
                         warning |-> bad,
                         holding_period_days |-> holding_period_days(first_tx_date, NowTs),
                         volatility |-> vol,
                         sharpe_ratio |-> sharpe_ratio(pct, vol),
                         max_drawdown |-> max_drawdown(MarketValues(value_data'))]
          /\ staleHit' = \E i \in 1..Len(value_data') : value_data'[i].Date \in failedPrice
          /\ pc' = IF Raised(gain_pct(gain, invested)) \/ Raised(avg_buy(invested, net_btc))
                   THEN "fault" ELSE "done"
  /\ UNCHANGED <<account, history, market, txsCache, detailCache, histCache, tx_limit, price_cache,
                 txsLocals, statsLocals, requests, failedDetail, failedPrice>>

Next ==
  \/ Locked
  \/ Subscribe
  \/ \E mode \in {"Last 20", "All"}, elapsed \in {"now", "15m", "1h"} : Rerun(mode, elapsed)
  \/ get_txs_all_cached
  \/ get_txs_all_last20
  \/ get_txs_all_page
  \/ get_wallet_stats_step
  \/ summary_metrics

\* Wallets with a short history, of every shape of transaction.
Init == InitWith(SmallHistories, {UsualMarket})
Spec == Init /\ [][Next]_vars

\* Wallets whose history fills more than the 20 of "Last 20" and a whole page.
InitLong == InitWith(LongHistories, {UsualMarket})
SpecLong == InitLong /\ [][Next]_vars
\* The script is synchronous: a pagination loop that can take its next
\* iteration takes it (lines 748-759 hold no wait but the sleep of line 759).
FairSpecLong == SpecLong /\ WF_vars(get_txs_all_page)

\* Wallets with a short history of transfers in and out, against every 30-day
\* price series.
ValuationShapes == 1..4
ValuationHistories ==
  {s \in SmallHistories : \A i \in 1..Len(s) : s[i] \in ValuationShapes}
InitValuation == InitWith(ValuationHistories, Markets)
SpecValuation == InitValuation /\ [][Next]_vars

\* Accounts of every kind, signed up or migrated, with a short wallet history.
SubscriptionHistories == {<<>>, <<1>>}
InitSubscription == InitUsers(SubscriptionHistories, {UsualMarket}, Emails, Users)
SpecSubscription == InitSubscription /\ [][Next]_vars

\* ----------------------------------------------------------------- claims
\* The figures the claims speak of, stated on the services' records.
RECURSIVE SumOver(_, _)
SumOver(S, val) ==
  IF S = {} THEN 0
  ELSE LET x == CHOOSE y \in S : TRUE IN val[x] + SumOver(S \ {x}, val)
\* Total output amount of a transaction to the tracked address.
Inflow(txid) ==
  LET vout == DetailOf(txid).vout
  IN SumOver({i \in 1..Len(vout) : vout[i].scriptpubkey_address = ME},
             [i \in 1..Len(vout) |-> vout[i].value])
\* Sum over the inputs whose previous output belongs to the tracked address of
\* max(0, input value - inflow).
Outflow(txid) ==
  LET vin == DetailOf(txid).vin
  IN SumOver({i \in 1..Len(vin) : vin[i].prevout.kind = "rec"
                                   /\ vin[i].prevout.scriptpubkey_address = ME},
             [i \in 1..Len(vin) |-> IF vin[i].prevout.value > Inflow(txid)
                                    THEN vin[i].prevout.value - Inflow(txid) ELSE 0])
EntriesOf(type) == {i \in 1..Len(data) : data[i].Type = type}
Amounts == [i \in 1..Len(data) |-> data[i].BTC]
Detailed == 1..Len(detailed)
Stats == pc \in {"loop", "done"}
\* A run that ended with no fetch having failed so far.
CleanRun == pc = "done" /\ fails = 0

\* C1: with no failed fetch, a run in "Last 20" mode works on the first
\* min(20, n) transactions of the history and a run in "All" mode on all of
\* them, whatever earlier runs did.
C1_TxsByMode ==
  (pc \in {"loop", "done", "fault"} /\ fails = 0)
    => txs = IF tx_limit = "Last 20"
             THEN SubSeq(history, 1, IF Len(history) < 20 THEN Len(history) ELSE 20)
             ELSE history

\* C2: every point of the value series holds the net holdings of the entries
\* dated on or before its date, and its market value is those holdings times
\* the price of the date times the multiplier (here: in the runs where no
\* fetch failed).
C2_HoldingsAsOfDate ==
  CleanRun =>
    \A k \in 1..Len(value_data) :
      LET p == value_data[k]
          asof == SumOver({i \in EntriesOf("IN") : data[i].Date <= p.Date}, Amounts)
                  - SumOver({i \in EntriesOf("OUT") : data[i].Date <= p.Date}, Amounts)
      IN /\ p.net_btc_date = asof
         /\ p.MarketValue = asof * p.price * summary.multiplier

\* C3: the ledger get_wallet_stats returns is in ascending date order (here:
\* in the runs where no fetch failed).
C3_LedgerSorted ==
  CleanRun => \A i, j \in 1..Len(data) : i < j => data[i].Date <= data[j].Date

\* C4: invested is the net USD flow times the multiplier when that is
\* positive, and the current market value otherwise (here: in the runs where
\* no fetch failed).
C4_InvestedClamped ==
  CleanRun =>
    summary.invested = IF summary.net_usd > 0
                       THEN summary.net_usd * summary.multiplier
                       ELSE summary.wallet_value

\* C5: max_drawdown is a number <= 0, and 0 for an empty or a non-decreasing
\* market-value series (here: in the runs where no fetch failed).
C5_DrawdownNeverPositive ==
  CleanRun =>
    LET md == summary.max_drawdown
        mv == MarketValues(value_data)
    IN /\ md.kind = "-inf" \/ (md.kind = "num" /\ md.n <= 0)
       /\ (\A i \in 1..(Len(mv) - 1) : mv[i] <= mv[i + 1]) => (md.kind = "num" /\ md.n = 0)

\* C6: no call is answered with the stored sentinel of an earlier failed
\* fetch for the same key.
C6_FailureNotStored == ~staleHit

\* C7: no run ends in an unhandled fault.
C7_NoUnhandledFault == pc # "fault"

\* C8: the IN entries' amounts add up to the outputs to the tracked address
\* of the transactions whose detail record was retrieved; so does total_btc_in.
C8_InflowSum ==
  Stats =>
    /\ SumOver(EntriesOf("IN"), Amounts) = SumOver(Detailed, [k \in Detailed |-> Inflow(detailed[k])])
    /\ totals.total_btc_in = SumOver(EntriesOf("IN"), Amounts)
C8_Witness ==
  /\ pc = "done"
  /\ Len(detailed) < Len(txs)
  /\ \E k \in Detailed :
       LET vout == DetailOf(detailed[k]).vout
       IN /\ Cardinality({i \in 1..Len(vout) : vout[i].scriptpubkey_address = ME}) >= 2
          /\ \E i \in 1..Len(vout) : vout[i].scriptpubkey_address # ME /\ vout[i].value > 0
          /\ \E i \in EntriesOf("IN") : data[i].Txid = detailed[k]

\* C9: the outflow recorded for a transaction is the sum, over its inputs owned
\* by the tracked address, of max(0, input value - inflow); total_btc_out is
\* the sum of these over the transactions retrieved.
C9_OutflowPerInput ==
  Stats =>
    /\ \A i \in EntriesOf("OUT") : data[i].BTC = Outflow(data[i].Txid)
    /\ totals.total_btc_out = SumOver(Detailed, [k \in Detailed |-> Outflow(detailed[k])])
C9_Witness ==
  /\ pc = "done"
  /\ \E i \in EntriesOf("OUT") :
       LET vin == DetailOf(data[i].Txid).vin
       IN /\ Inflow(data[i].Txid) > 0
          /\ \E a \in 1..Len(vin) : vin[a].prevout.scriptpubkey_address \notin {ME, NoAddr}
          /\ \E a \in 1..Len(vin) : /\ vin[a].prevout.scriptpubkey_address = ME
                                    /\ vin[a].prevout.value < Inflow(data[i].Txid)

\* C10: every entry's amount is > 0; a retrieved transaction has an IN entry
\* iff its inflow is > 0 and an OUT entry iff its outflow is > 0.
C10_PositiveAmounts ==
  Stats =>
    /\ \A i \in 1..Len(data) : data[i].BTC > 0
    /\ \A k \in Detailed :
         /\ (\E i \in EntriesOf("IN") : data[i].Txid = detailed[k]) <=> Inflow(detailed[k]) > 0
         /\ (\E i \in EntriesOf("OUT") : data[i].Txid = detailed[k]) <=> Outflow(detailed[k]) > 0
C10_Witness ==
  /\ pc = "done"
  /\ \E k \in Detailed : Inflow(detailed[k]) = 0 /\ Outflow(detailed[k]) = 0
  /\ \E k \in Detailed : Inflow(detailed[k]) > 0 /\ Outflow(detailed[k]) > 0

\* C11: the transaction list of a run holds no transaction id twice, and no
\* transaction id has two IN entries or two OUT entries in the ledger.
C11_OneEntryPerDirection ==
  Stats =>
    /\ NoRep(txs)
    /\ \A i, j \in 1..Len(data) :
         (data[i].Txid = data[j].Txid /\ data[i].Type = data[j].Type) => i = j
C11_Witness ==
  /\ pc = "done"
  /\ \E k \in Detailed :
       LET d == DetailOf(detailed[k])
       IN /\ Cardinality({i \in 1..Len(d.vout) : d.vout[i].scriptpubkey_address = ME
                                                  /\ d.vout[i].value > 0}) >= 2
          /\ Cardinality({i \in 1..Len(d.vin) : d.vin[i].prevout.scriptpubkey_address = ME}) >= 2
          /\ \E i \in EntriesOf("IN") : data[i].Txid = detailed[k]
          /\ \E i \in EntriesOf("OUT") : data[i].Txid = detailed[k]

\* C12: in "All" mode, while the pagination loop runs every page so far was a
\* full page of 25 taken in order from the history and the next request
\* follows the last id received; when the loop has returned its list without
\* a failed fetch, the last page requested was empty or shorter than 25 and
\* the list is the whole history, every transaction once, in the order served;
\* and a pagination loop that has started ends.
C12_PagesInOrder ==
  /\ (pc = "get_txs" /\ tx_limit = "All") =>
       /\ all_txs = SubSeq(history, 1, Len(all_txs))
       /\ Len(all_txs) % 25 = 0
       /\ url = IF all_txs = <<>> THEN 0 ELSE all_txs[Len(all_txs)]
  /\ (pc \in {"loop", "done", "fault"} /\ tx_limit = "All" /\ all_txs # <<>> /\ txs = all_txs) =>
       /\ Len(Page(history, url)) < 25
       /\ txs = history
       /\ NoRep(txs)
C12_PaginationComplete ==
  /\ []C12_PagesInOrder
  /\ (pc = "get_txs" /\ tx_limit = "All" /\ ME \notin DOMAIN txsCache) ~> (pc # "get_txs")
C12_Witness ==
  /\ pc = "loop"
  /\ tx_limit = "All"
  /\ url # 0
  /\ Len(all_txs) > 25
  /\ txs = all_txs

\* C13: the counterparty of every entry is the first address other than the
\* tracked one among the inputs' previous outputs, else the first such address
\* among the outputs, else the sentinel ("N/A" in the code); never an empty or
\* null value.
RealAddress(a) == a \notin {ME, NoAddr, "", "N/A"}
FirstReal(owners) ==
  LET idxs == {i \in 1..Len(owners) : RealAddress(owners[i])}
  IN IF idxs = {} THEN "N/A" ELSE owners[CHOOSE i \in idxs : \A j \in idxs : i <= j]
ExpectedCounterparty(txid) ==
  LET d == DetailOf(txid)
      ins == [i \in 1..Len(d.vin) |-> d.vin[i].prevout.scriptpubkey_address]
      outs == [i \in 1..Len(d.vout) |-> d.vout[i].scriptpubkey_address]
  IN IF FirstReal(ins) # "N/A" THEN FirstReal(ins) ELSE FirstReal(outs)
C13_CounterpartyIsAddress ==
  Stats =>
    \A i \in 1..Len(data) :
      /\ data[i].Counterparty \notin {"", NoAddr}
      /\ data[i].Counterparty = ExpectedCounterparty(data[i].Txid)

\* C14: when the balance the service reports for the address is negative, the
\* summary has net_btc, the market value, gain and gain_pct at 0 and carries
\* the warning.
C14_NegativeBalanceHandled ==
  (pc = "done" /\ summary.balance # <<>> /\ summary.balance[1] < 0) =>
    /\ summary.warning
    /\ summary.net_btc = 0
    /\ summary.wallet_value = 0
    /\ summary.gain = 0
    /\ summary.gain_pct = Num(0, 1)

\* C15: avg_buy times the live balance is invested, the balance 0 included
\* (here: in the runs where no fetch failed).
C15_AvgBuyTimesBalance ==
  CleanRun => summary.avg_buy.n * summary.net_btc = summary.invested * summary.avg_buy.d

\* C16: no summary computation raises a division by zero; gain_pct is 0
\* whenever invested is 0, and sharpe_ratio is 0 whenever volatility is 0.
C16_ZeroGuards ==
  /\ pc # "fault"
  /\ pc = "done" =>
       /\ ~Raised(summary.gain_pct) /\ ~Raised(summary.avg_buy)
       /\ summary.invested = 0 => summary.gain_pct = Num(0, 1)
       /\ (summary.volatility.kind = "num" /\ summary.volatility.n = 0)
            => summary.sharpe_ratio.kind = "zero"
C16_Witness ==
  /\ pc = "done"
  /\ summary.invested = 0
  /\ summary.gain # 0
  /\ market # <<>>
  /\ summary.volatility.kind = "num" /\ summary.volatility.n = 0

\* C17: market value = balance delivered x current price x multiplier, gain =
\* market value - invested, gain_pct = gain / invested x 100 (0 when invested
\* is 0); for a ledger with inflows only, invested is the sum of the IN
\* entries' USD values x multiplier.
UsdValues == [i \in 1..Len(data) |-> data[i].USD]
C17_GainFormulas ==
  pc = "done" =>
    /\ summary.wallet_value = summary.net_btc * summary.current_price_usd * summary.multiplier
    /\ (summary.balance # <<>> /\ summary.balance[1] >= 0) => summary.net_btc = summary.balance[1]
    /\ summary.gain = summary.wallet_value - summary.invested
    /\ summary.gain_pct.kind = "num"
    /\ IF summary.invested # 0
       THEN summary.gain_pct.n * summary.invested = summary.gain * 100 * summary.gain_pct.d
       ELSE summary.gain_pct.n = 0
    /\ (EntriesOf("IN") # {} /\ EntriesOf("OUT") = {})
         => summary.invested = SumOver(EntriesOf("IN"), UsdValues) * summary.multiplier
C17_Witness ==
  /\ pc = "done"
  /\ fails = 0
  /\ Len(data) = 1 /\ data[1].Type = "IN"
  /\ summary.balance = <<data[1].BTC>>
  /\ summary.invested = data[1].USD * summary.multiplier
  /\ summary.gain > 0
  /\ summary.gain_pct.n > 0

\* C18: the value series has one point for each distinct date of the ledger
\* and no other, in strictly increasing order of date.
C18_SeriesDates ==
  pc = "done" =>
    /\ {value_data[k].Date : k \in 1..Len(value_data)} = DatesOf(data)
    /\ Len(value_data) = Cardinality(DatesOf(data))
    /\ \A k \in 1..(Len(value_data) - 1) : value_data[k].Date < value_data[k + 1].Date
C18_Witness ==
  /\ pc = "done"
  /\ Len(value_data) >= 2
  /\ \E i, j \in 1..Len(data) : i < j /\ data[i].Date > data[j].Date
  /\ \E i, j \in 1..Len(data) : i < j /\ data[i].Date = data[j].Date

\* C19: the cost basis of every point is (the USD value of the IN entries
\* dated on or before the point - that of the OUT entries dated on or before
\* it) x multiplier, unclamped.
C19_CostBasisCumulative ==
  pc = "done" =>
    \A k \in 1..Len(value_data) :
      value_data[k].CostBasis =
        (SumOver({i \in EntriesOf("IN") : data[i].Date <= value_data[k].Date}, UsdValues)
         - SumOver({i \in EntriesOf("OUT") : data[i].Date <= value_data[k].Date}, UsdValues))
        * summary.multiplier
C19_Witness ==
  /\ pc = "done"
  /\ Len(value_data) >= 2
  /\ \E k \in 1..Len(value_data) : value_data[k].CostBasis < 0
  /\ \E k \in 1..Len(value_data) : value_data[k].CostBasis > 0

\* C20: a transaction whose detail record could not be retrieved has no ledger
\* entry and adds nothing to the totals, no run faults, and the loop goes on:
\* when it has gone through the batch, exactly the transactions retrieved are
\* recorded, in order, each with the entries of its own inflow and outflow.
LoopOver == pc = "loop" /\ idx > Len(txs)
Retrieved(k) == \E j \in Detailed : detailed[j] = txs[k]
C20_SkippedOnly ==
  /\ pc # "fault"
  /\ LoopOver =>
       /\ detailed = SelectSeq(txs, LAMBDA t : t \in {detailed[j] : j \in Detailed})
       /\ \A k \in 1..Len(txs) :
            /\ txs[k] \in DOMAIN detailCache
            /\ IF Retrieved(k)
               THEN /\ detailCache[txs[k]] = Record(txs[k])
                    /\ Inflow(txs[k]) > 0 => \E i \in EntriesOf("IN") : data[i].Txid = txs[k]
                    /\ Outflow(txs[k]) > 0 => \E i \in EntriesOf("OUT") : data[i].Txid = txs[k]
               ELSE /\ detailCache[txs[k]] = EmptyDetail
                    /\ \A i \in 1..Len(data) : data[i].Txid # txs[k]
       /\ totals.total_btc_in = SumOver(EntriesOf("IN"), Amounts)
       /\ totals.total_btc_out = SumOver(EntriesOf("OUT"), Amounts)
       /\ totals.total_usd_in = SumOver(EntriesOf("IN"), UsdValues)
       /\ totals.total_usd_out = SumOver(EntriesOf("OUT"), UsdValues)
C20_Witness ==
  /\ LoopOver
  /\ \E k \in 2..(Len(txs) - 1) :
       /\ ~Retrieved(k)
       /\ Retrieved(k - 1) /\ \E i \in 1..Len(data) : data[i].Txid = txs[k - 1]
       /\ Retrieved(k + 1) /\ \E i \in 1..Len(data) : data[i].Txid = txs[k + 1]

\* C21: first_tx_date is None exactly when the ledger is empty, and then
\* holding_period_days is 0; for a non-empty ledger it is the earliest
\* timestamp of the transactions the ledger's entries come from (here: in the
\* runs where no fetch failed).
SourceTimes == {BlockTime(DetailOf(data[i].Txid), NowTs) : i \in 1..Len(data)}
C21_FirstDateOfLedger ==
  CleanRun =>
    /\ (first_tx_date = <<>>) <=> (data = <<>>)
    /\ data = <<>> => summary.holding_period_days = 0
    /\ data # <<>> => /\ first_tx_date # <<>>
                       /\ first_tx_date[1] \in SourceTimes
                       /\ \A t \in SourceTimes : first_tx_date[1] <= t

KnownPrices ==
  [d \in DOMAIN price_cache \cup (DOMAIN histCache \ failedPrice) |->
     IF d \in DOMAIN price_cache THEN price_cache[d] ELSE histCache[d]]
C23_PriceKept ==
  [][\A d \in DOMAIN KnownPrices :
       d \in DOMAIN KnownPrices' /\ KnownPrices'[d] = KnownPrices[d]]_vars

\* C24: the mapping get_currency_rates returns always contains USD with the
\* multiplier 1.0 (100 hundredths), and when its fetch fails it is exactly
\* USD 1.0, GBP 0.78, EUR 0.92; the call never raises, so the summary is
\* computed with it.
C24_RatesHaveUSD ==
  summary.computed =>
    /\ "USD" \in DOMAIN summary.rates
    /\ summary.rates["USD"] = 100
    /\ summary.rates_failed =>
         (/\ DOMAIN summary.rates = {"USD", "GBP", "EUR"}
          /\ summary.rates["GBP"] = 78
          /\ summary.rates["EUR"] = 92)
    /\ ratesCache["rates"] = summary.rates
C24_Witness ==
  /\ summary.computed
  /\ summary.rates_failed
  /\ summary.rates["GBP"] = 78
  /\ summary.multiplier = 92

\* C25: volatility is a number in every summary, never NaN, and is 0 when the
\* 30-day series has no point or a single point; consequently sharpe_ratio is
\* a defined number as well.
C25_VolatilityDefined ==
  summary.computed =>
    /\ summary.volatility.kind = "num"
    /\ (Len(market) <= 1 => summary.volatility = Num(0, 1))
    /\ summary.sharpe_ratio.kind # "nan"

\* C26: in "All" mode a page request that fails, the first or a later one,
\* makes get_txs_all return the empty list: the pages already fetched are
\* discarded, and the empty list is what the store keeps for the address.
C26_FailedPageDiscardsAll ==
  [][(pc = "get_txs" /\ tx_limit = "All" /\ ME \notin DOMAIN txsCache /\ fails' > fails) =>
       (pc' = "loop" /\ txs' = <<>> /\ txsCache'[ME] = <<>>)]_vars
C26_Witness ==
  /\ tx_limit = "All"
  /\ pc = "loop"
  /\ Len(all_txs) = PageSize
  /\ txs = <<>>
  /\ ME \in DOMAIN txsCache /\ txsCache[ME] = <<>>
  /\ fails = 1

\* C27: whenever the stored subscription_status of the account is "active",
\* or the script run has found it active and unlocked the dashboard, the
\* provider holds an active or pending_submission mandate for the account; in
\* particular a press of Subscribe alone leaves the status inactive.  (Stated
\* once a script run has looked at the account.)
C27_ActiveIsBacked ==
  (subscription_status # None
     /\ (user.subscription_status = "active" \/ subscription_status = "active")) =>
    Backing(mandates) # {}
====
